---- MODULE Spec2Model ----
(***************************************************************************)
(* Model of lightrag/workspace_context.py: one context variable            *)
(* (_workspace_context) holding an optional workspace identifier, read by  *)
(* get_workspace_context / get_effective_workspace and overridden for the  *)
(* duration of a block by the generator context manager set_workspace.     *)
(*                                                                         *)
(* Execution contexts are tasks.  Every task runs in a contextvars.Context *)
(* of its own; a task spawned from another one starts in a copy of the     *)
(* spawner's Context, a task started from scratch starts in an empty one.  *)
(* Tasks interleave at every step, so a task is suspended and resumed      *)
(* while the others enter and leave scopes.                                *)
(*                                                                         *)
(* Two specifications share the state and the set/reset operators:         *)
(*   Spec        tasks use  `with set_workspace(w): body`  (the spec's     *)
(*               with_workspace(v, body)): scopes of a task are entered    *)
(*               and left by that task, innermost first;                   *)
(*   SpecManual  scope objects are created, entered and left by explicit   *)
(*               calls, by any task and in any order (generators, objects  *)
(*               handed from one task to another).                         *)
(***************************************************************************)
EXTENDS Integers, Sequences, FiniteSets, TLC

MaxTasks == 2
MaxScopes == 2

Task == 1..MaxTasks
ScopeId == 1..MaxScopes

\* contextvars' Token.MISSING: the variable has no binding in the Context
MISSING == "<MISSING>"
\* Python's None: the default of _workspace_context, the "unset" reading
None == "<None>"
\* workspace identifiers handed to set_workspace
WorkspaceId == {"tenant1", "tenant2"}
\* the edge values of the argument of set_workspace: the empty identifier and
\* None, next to an ordinary identifier
EdgeWorkspace == {"tenant1", "", None}
\* default workspaces handed to get_effective_workspace
DefaultWorkspace == {"public", "tenant1"}
\* failures a body can raise
NoExc == "none"
BodyExc == {"e1", "e2"}
ValueError == "ValueError"
RuntimeError == "RuntimeError"
\* the failure the host raises at the suspension point of a cancelled task
CancelledError == "CancelledError"

NoToken == [ctx |-> 0, old |-> MISSING, used |-> FALSE]
NoScope == [state |-> "fresh", workspace |-> None, token |-> NoToken,
            by |-> 0, before |-> None]
NoOp == [op |-> "init", task |-> 0, scope |-> 0, arg |-> None, before |-> None,
         result |-> None, thrown |-> NoExc, raised |-> NoExc]

VARIABLES
    status,     \* task -> "unborn" | "running" | "done"
    parent,     \* task -> the task that spawned it, 0 for a task started from scratch
    ctxOf,      \* task -> the Context the task runs in (0 while unborn)
    ctxvars,    \* Context -> binding of _workspace_context: MISSING, None or an identifier
    scopes,     \* scope object -> [state, workspace, token, by, before]
    open,       \* task -> the scopes it entered and that were not left yet, oldest first
    pending,    \* task -> the failure propagating in it, NoExc when there is none
    spawned,    \* task -> what the spawner read at spawn time, its innermost scope then and that scope's workspace
    episode,    \* task -> [base, lifo, own]: what it read before the first of the scopes it
                \* has entered since it was last inside none, whether those left so far were
                \* left innermost first, and whether they were left by the task itself
    last        \* the operation performed by the last step and what it returned

vars == <<status, parent, ctxOf, ctxvars, scopes, open, pending, spawned, episode, last>>

----------------------------------------------------------------------------
\* The context variable and its three primitives

\* (variant: one store for the whole thread, whatever task runs)
CurrentContextShared(t) == 1
\* the Context the code of task t executes in
CurrentContext(t) == ctxOf[t]

\* _workspace_context.get(): the binding of the current Context, else the default None
ValueOf(binding) == IF binding = MISSING THEN None ELSE binding
ContextVarGet(c) == ValueOf(ctxvars[c])

\* _workspace_context.set(w): the token remembers the Context and the previous binding
ContextVarSetToken(c) == [ctx |-> c, old |-> ctxvars[c], used |-> FALSE]
\* (variant: None is taken as "no override" and not bound)
ContextVarSetSkipNone(c, w) ==
    IF w = None THEN ctxvars ELSE [ctxvars EXCEPT ![c] = w]
\* (variant: set leaves an existing binding alone)
ContextVarSetIfMissing(c, w) ==
    IF ctxvars[c] = MISSING THEN [ctxvars EXCEPT ![c] = w] ELSE ctxvars
ContextVarSet(c, w) == [ctxvars EXCEPT ![c] = w]

\* _workspace_context.reset(token): refuses a used token and a token of another Context
ContextVarResetError(c, tok) ==
    IF tok.used THEN RuntimeError
    ELSE IF tok.ctx # c THEN ValueError
    ELSE NoExc
\* (variants: reset clears the binding; reset leaves the binding)
ContextVarResetClear(c, tok) == [ctxvars EXCEPT ![c] = MISSING]
ContextVarResetKeep(c, tok) == ctxvars
\* ... and otherwise puts the previous binding back (removes it when there was none)
ContextVarReset(c, tok) == [ctxvars EXCEPT ![c] = tok.old]

get_workspace_context(t) == ContextVarGet(CurrentContext(t))

\* (variant: the context workspace is tested for truth, not for None)
get_effective_workspace_truthy(t, default_workspace) ==
    LET context_workspace == ContextVarGet(CurrentContext(t))
    IN  IF context_workspace # None /\ context_workspace # ""
        THEN context_workspace ELSE default_workspace
\* (variant: no fallback to the default)
get_effective_workspace_nofallback(t, default_workspace) ==
    ContextVarGet(CurrentContext(t))
get_effective_workspace(t, default_workspace) ==
    LET context_workspace == ContextVarGet(CurrentContext(t))
    IN  IF context_workspace # None THEN context_workspace ELSE default_workspace

\* (variant: the spawned task runs in the spawner's Context itself)
TaskContextShared(p, c) == ctxOf[p]
\* a spawned task c runs in a Context of its own ...
TaskContext(p, c) == c
\* (variant: the spawned task starts in an empty Context)
copy_context_empty(p) == MISSING
\* ... that starts as a copy of the spawner's: the binding the copy holds
copy_context(p) == ctxvars[CurrentContext(p)]

NotSpawned == [value |-> None, scope |-> 0, workspace |-> None]
NoEpisode == [base |-> None, lifo |-> TRUE, own |-> TRUE]

----------------------------------------------------------------------------
Last(s) == s[Len(s)]
RECURSIVE Without(_, _)
Without(s, x) ==
    IF s = <<>> THEN <<>>
    ELSE IF s[1] = x THEN Without(Tail(s), x)
    ELSE <<s[1]>> \o Without(Tail(s), x)

Lowest(S) == CHOOSE x \in S : \A y \in S : x <= y
Unborn == {t \in Task : status[t] = "unborn"}
Fresh == {s \in ScopeId : scopes[s].state = "fresh"}
Running(t) == status[t] = "running"
Ready(t) == Running(t) /\ pending[t] = NoExc

Init ==
    /\ status = [t \in Task |-> IF t = 1 THEN "running" ELSE "unborn"]
    /\ parent = [t \in Task |-> 0]
    /\ ctxOf = [t \in Task |-> IF t = 1 THEN 1 ELSE 0]
    /\ ctxvars = [c \in Task |-> MISSING]
    /\ scopes = [s \in ScopeId |-> NoScope]
    /\ open = [t \in Task |-> <<>>]
    /\ pending = [t \in Task |-> NoExc]
    /\ spawned = [t \in Task |-> NotSpawned]
    /\ episode = [t \in Task |-> NoEpisode]
    /\ last = NoOp

----------------------------------------------------------------------------
\* set_workspace(w) called: the generator object exists, no line of its body has run
CreateScope(s, w) ==
    [scopes EXCEPT ![s] = [NoScope EXCEPT !.state = "created", !.workspace = w]]

\* __enter__ run by task t: the generator runs up to its yield
\*     token = _workspace_context.set(workspace)
EnterScope(t, s, sc) ==
    LET c == CurrentContext(t) IN
    /\ ctxvars' = ContextVarSet(c, sc[s].workspace)
    /\ scopes' = [sc EXCEPT ![s].state = "entered",
                            ![s].token = ContextVarSetToken(c),
                            ![s].by = t,
                            ![s].before = get_workspace_context(t)]
    /\ open' = [open EXCEPT ![t] = Append(@, s)]
    /\ episode' = IF open[t] = <<>>
                  THEN [episode EXCEPT ![t] = [NoEpisode EXCEPT !.base = get_workspace_context(t)]]
                  ELSE episode
    /\ last' = [NoOp EXCEPT !.op = "enter", !.task = t, !.scope = s,
                            !.arg = sc[s].workspace,
                            !.result = ValueOf(ctxvars'[c])]
    /\ UNCHANGED <<status, parent, ctxOf, pending, spawned>>

\* the record of the order of exits, scope s being left by task t
ExitEpisode(t, s) ==
    LET by == scopes[s].by IN
    [episode EXCEPT ![by].lifo = @ /\ s = Last(open[by]),
                    ![by].own = @ /\ t = by]

\* (variant: the failure of the body is swallowed)
ExitRaisesSuppress(err, thrown) == err
\* the failure that leaves the with statement: the one reset raised, if any,
\* else the one thrown into the generator (re-raised by it, __exit__ returns False)
ExitRaises(err, thrown) == IF err # NoExc THEN err ELSE thrown

\* (variant: no try/finally, the reset is skipped when the body fails)
ExitScopeNoFinally(t, s, thrown) ==
    LET c == CurrentContext(t)
        tok == scopes[s].token
        err == IF thrown # NoExc THEN NoExc ELSE ContextVarResetError(c, tok)
    IN
    /\ ctxvars' = IF err = NoExc /\ thrown = NoExc THEN ContextVarReset(c, tok) ELSE ctxvars
    /\ scopes' = [scopes EXCEPT ![s] = [NoScope EXCEPT !.state = "exited"]]
    /\ open' = [u \in Task |-> Without(open[u], s)]
    /\ episode' = ExitEpisode(t, s)
    /\ pending' = [pending EXCEPT ![t] = ExitRaises(err, thrown)]
    /\ last' = [NoOp EXCEPT !.op = "exit", !.task = t, !.scope = s,
                            !.arg = scopes[s].workspace,
                            !.before = scopes[s].before,
                            !.result = ValueOf(ctxvars'[c]),
                            !.thrown = thrown,
                            !.raised = ExitRaises(err, thrown)]
    /\ UNCHANGED <<status, parent, ctxOf, spawned>>

\* __exit__ run by task t, thrown being the failure of the body (NoExc: none):
\* the generator resumes at its yield and runs
\*     finally: _workspace_context.reset(token)
\* and is finished whatever reset did: the token dies with its frame
ExitScope(t, s, thrown) ==
    LET c == CurrentContext(t)
        tok == scopes[s].token
        err == ContextVarResetError(c, tok)
    IN
    /\ ctxvars' = IF err = NoExc THEN ContextVarReset(c, tok) ELSE ctxvars
    /\ scopes' = [scopes EXCEPT ![s] = [NoScope EXCEPT !.state = "exited"]]
    /\ open' = [u \in Task |-> Without(open[u], s)]
    /\ episode' = ExitEpisode(t, s)
    /\ pending' = [pending EXCEPT ![t] = ExitRaises(err, thrown)]
    /\ last' = [NoOp EXCEPT !.op = "exit", !.task = t, !.scope = s,
                            !.arg = scopes[s].workspace,
                            !.before = scopes[s].before,
                            !.result = ValueOf(ctxvars'[c]),
                            !.thrown = thrown,
                            !.raised = ExitRaises(err, thrown)]
    /\ UNCHANGED <<status, parent, ctxOf, spawned>>

----------------------------------------------------------------------------
\* Operations of a task

\* (variant: a read that binds the default when the variable is not bound)
GetCurrentBinds(t) ==
    /\ Ready(t)
    /\ ctxvars' = [ctxvars EXCEPT ![CurrentContext(t)] = ValueOf(@)]
    /\ last' = [NoOp EXCEPT !.op = "get", !.task = t,
                            !.result = get_workspace_context(t)]
    /\ UNCHANGED <<status, parent, ctxOf, scopes, open, pending, spawned, episode>>

\* get_workspace_context()
GetCurrent(t) ==
    /\ Ready(t)
    /\ last' = [NoOp EXCEPT !.op = "get", !.task = t,
                            !.result = get_workspace_context(t)]
    /\ UNCHANGED <<status, parent, ctxOf, ctxvars, scopes, open, pending, spawned, episode>>

\* get_effective_workspace(d)
GetEffective(t, d) ==
    /\ Ready(t)
    /\ last' = [NoOp EXCEPT !.op = "effective", !.task = t, !.arg = d,
                            !.result = get_effective_workspace(t, d)]
    /\ UNCHANGED <<status, parent, ctxOf, ctxvars, scopes, open, pending, spawned, episode>>

\* `with set_workspace(w):` reached by task t: the object is created and entered
WithEnter(t, w) ==
    /\ Ready(t)
    /\ Fresh # {}
    /\ LET s == Lowest(Fresh) IN EnterScope(t, s, CreateScope(s, w))

\* the body of the innermost with block of task t ends, normally or by the
\* failure propagating in t
WithExit(t) ==
    /\ Running(t)
    /\ open[t] # <<>>
    /\ ExitScope(t, Last(open[t]), pending[t])

\* the body of a with block raises
Raise(t, e) ==
    /\ Ready(t)
    /\ open[t] # <<>>
    /\ pending' = [pending EXCEPT ![t] = e]
    /\ last' = [NoOp EXCEPT !.op = "raise", !.task = t, !.thrown = e, !.raised = e]
    /\ UNCHANGED <<status, parent, ctxOf, ctxvars, scopes, open, spawned, episode>>

\* the failure propagating in task t is caught by a handler of t's code
Catch(t) ==
    /\ Running(t)
    /\ pending[t] # NoExc
    /\ pending' = [pending EXCEPT ![t] = NoExc]
    /\ last' = [NoOp EXCEPT !.op = "catch", !.task = t, !.thrown = pending[t],
                            !.result = get_workspace_context(t)]
    /\ UNCHANGED <<status, parent, ctxOf, ctxvars, scopes, open, spawned, episode>>

\* task p spawns a task: it runs in a copy of p's Context
Spawn(p) ==
    /\ Ready(p)
    /\ Unborn # {}
    /\ LET c == Lowest(Unborn) IN
        /\ status' = [status EXCEPT ![c] = "running"]
        /\ parent' = [parent EXCEPT ![c] = p]
        /\ ctxOf' = [ctxOf EXCEPT ![c] = TaskContext(p, c)]
        /\ ctxvars' = [ctxvars EXCEPT ![c] = copy_context(p)]
        /\ spawned' = [spawned EXCEPT ![c] =
                          [value |-> get_workspace_context(p),
                           scope |-> IF open[p] = <<>> THEN 0 ELSE Last(open[p]),
                           workspace |-> IF open[p] = <<>> THEN None
                                         ELSE scopes[Last(open[p])].workspace]]
        /\ episode' = [episode EXCEPT ![c] = [NoEpisode EXCEPT !.base = get_workspace_context(p)]]
        /\ last' = [NoOp EXCEPT !.op = "spawn", !.task = p,
                                !.before = get_workspace_context(p),
                                !.result = ValueOf(ctxvars'[ctxOf'[c]])]
    /\ UNCHANGED <<scopes, open, pending>>

\* a task is started from scratch (a new thread, a new event loop): empty Context
Start ==
    /\ Unborn # {}
    /\ LET c == Lowest(Unborn) IN
        /\ status' = [status EXCEPT ![c] = "running"]
        /\ ctxOf' = [ctxOf EXCEPT ![c] = c]
        /\ ctxvars' = [ctxvars EXCEPT ![c] = MISSING]
        /\ last' = [NoOp EXCEPT !.op = "start", !.task = c,
                                !.result = ValueOf(ctxvars'[ctxOf'[c]])]
    /\ UNCHANGED <<parent, scopes, open, pending, spawned, episode>>

\* a task ends, all its with blocks left: its Context is discarded
Finish(t) ==
    /\ Running(t)
    /\ open[t] = <<>>
    /\ status' = [status EXCEPT ![t] = "done"]
    /\ pending' = [pending EXCEPT ![t] = NoExc]
    /\ ctxvars' = [ctxvars EXCEPT ![CurrentContext(t)] = MISSING]
    /\ parent' = [parent EXCEPT ![t] = 0]
    /\ spawned' = [spawned EXCEPT ![t] = NotSpawned]
    /\ episode' = [episode EXCEPT ![t] = NoEpisode]
    /\ last' = [NoOp EXCEPT !.op = "finish", !.task = t, !.thrown = pending[t]]
    /\ UNCHANGED <<ctxOf, scopes, open>>

Next ==
    \/ \E t \in Task : GetCurrent(t)
    \/ \E t \in Task, d \in DefaultWorkspace : GetEffective(t, d)
    \/ \E t \in Task, w \in WorkspaceId : WithEnter(t, w)
    \/ \E t \in Task : WithExit(t)
    \/ \E t \in Task, e \in BodyExc : Raise(t, e)
    \/ \E t \in Task : Catch(t)
    \/ \E t \in Task : Spawn(t)
    \/ Start
    \/ \E t \in Task : Finish(t)

Spec == Init /\ [][Next]_vars

----------------------------------------------------------------------------
\* Cancellation

\* task t is cancelled while suspended: the host raises CancelledError at the
\* point where t is suspended, inside whatever with blocks t is in
Cancel(t) ==
    /\ Ready(t)
    /\ pending' = [pending EXCEPT ![t] = CancelledError]
    /\ last' = [NoOp EXCEPT !.op = "cancel", !.task = t,
                            !.thrown = CancelledError, !.raised = CancelledError]
    /\ UNCHANGED <<status, parent, ctxOf, ctxvars, scopes, open, spawned, episode>>

\* a failure propagating in task t leaves the innermost with block of t: the
\* finally clause runs with no suspension point in between
Unwind(t) == pending[t] # NoExc /\ WithExit(t)

NextCancel ==
    \/ \E t \in Task, w \in WorkspaceId : WithEnter(t, w)
    \/ \E t \in Task : WithExit(t)
    \/ \E t \in Task : Cancel(t)
    \/ \E t \in Task : Catch(t)
    \/ \E t \in Task : Spawn(t)
    \/ \E t \in Task : Finish(t)

\* a propagating failure keeps unwinding unless a handler of the body catches it
SpecCancel == Init /\ [][NextCancel]_vars /\ \A t \in Task : WF_vars(Unwind(t))

----------------------------------------------------------------------------
\* Edge values of the workspace argument: with set_workspace(""), with set_workspace(None)

NextEdge ==
    \/ \E t \in Task : GetCurrent(t)
    \/ \E t \in Task, d \in DefaultWorkspace : GetEffective(t, d)
    \/ \E t \in Task, w \in EdgeWorkspace : WithEnter(t, w)
    \/ \E t \in Task : WithExit(t)
    \/ \E t \in Task : Spawn(t)
    \/ \E t \in Task : Finish(t)

SpecEdge == Init /\ [][NextEdge]_vars

----------------------------------------------------------------------------
\* Scope objects driven by hand

\* (variant: the workspace is set when the object is created, not when it is entered)
set_workspace_eager(t, w) ==
    /\ Ready(t)
    /\ Fresh # {}
    /\ LET s == Lowest(Fresh) IN
        /\ scopes' = CreateScope(s, w)
        /\ ctxvars' = ContextVarSet(CurrentContext(t), w)
        /\ last' = [NoOp EXCEPT !.op = "set_workspace", !.task = t, !.scope = s, !.arg = w,
                                !.before = get_workspace_context(t),
                                !.result = w]
    /\ UNCHANGED <<status, parent, ctxOf, open, pending, spawned, episode>>

\* set_workspace(w): returns the scope object, not entered
set_workspace(t, w) ==
    /\ Ready(t)
    /\ Fresh # {}
    /\ LET s == Lowest(Fresh) IN
        /\ scopes' = CreateScope(s, w)
        /\ last' = [NoOp EXCEPT !.op = "set_workspace", !.task = t, !.scope = s, !.arg = w,
                                !.before = get_workspace_context(t),
                                !.result = get_workspace_context(t)]
    /\ UNCHANGED <<status, parent, ctxOf, ctxvars, open, pending, spawned, episode>>

\* await async_set_workspace(w): return set_workspace(workspace)
async_set_workspace(t, w) ==
    /\ Ready(t)
    /\ Fresh # {}
    /\ LET s == Lowest(Fresh) IN
        /\ scopes' = CreateScope(s, w)
        /\ last' = [NoOp EXCEPT !.op = "async_set_workspace", !.task = t, !.scope = s, !.arg = w,
                                !.before = get_workspace_context(t),
                                !.result = get_workspace_context(t)]
    /\ UNCHANGED <<status, parent, ctxOf, ctxvars, open, pending, spawned, episode>>

\* task t enters a scope object that was created and not entered yet
Enter(t, s) ==
    /\ Ready(t)
    /\ scopes[s].state = "created"
    /\ EnterScope(t, s, scopes)

\* task t leaves an entered scope object, with the failure e of the guarded work or none
Exit(t, s, e) ==
    /\ Ready(t)
    /\ scopes[s].state = "entered"
    /\ ExitScope(t, s, e)

NextManual ==
    \/ \E t \in Task : GetCurrent(t)
    \/ \E t \in Task, d \in DefaultWorkspace : GetEffective(t, d)
    \/ \E t \in Task, w \in WorkspaceId : set_workspace(t, w)
    \/ \E t \in Task, w \in WorkspaceId : async_set_workspace(t, w)
    \/ \E t \in Task, s \in ScopeId : Enter(t, s)
    \/ \E t \in Task, s \in ScopeId, e \in BodyExc \cup {NoExc} : Exit(t, s, e)
    \/ \E t \in Task : Catch(t)
    \/ \E t \in Task : Spawn(t)
    \/ Start
    \/ \E t \in Task : Finish(t)

SpecManual == Init /\ [][NextManual]_vars

\* the same, for tasks started from scratch that create, enter and leave scope
\* objects and read the slot
NextObjects ==
    \/ \E t \in Task : GetCurrent(t)
    \/ \E t \in Task, w \in WorkspaceId : set_workspace(t, w)
    \/ \E t \in Task, w \in WorkspaceId : async_set_workspace(t, w)
    \/ \E t \in Task, s \in ScopeId : Enter(t, s)
    \/ \E t \in Task, s \in ScopeId, e \in BodyExc \cup {NoExc} : Exit(t, s, e)
    \/ \E t \in Task : Catch(t)
    \/ Start

SpecObjects == Init /\ [][NextObjects]_vars

----------------------------------------------------------------------------
\* Properties

\* the innermost scope task t is inside, and the value the scoping rules give t:
\* the workspace of that scope, else what t inherited when it was spawned
Inner(t) == scopes[Last(open[t])]
Scoped(t) == IF open[t] # <<>> THEN Inner(t).workspace ELSE spawned[t].value

RestorationOnReturn ==
    (last.op = "exit" /\ last.thrown = NoExc)
        => /\ last.raised = NoExc
           /\ last.result = last.before
           /\ get_workspace_context(last.task) = last.before
           /\ get_workspace_context(last.task) = Scoped(last.task)

\* the inner of two nested blocks was left and the task reads the outer workspace
RestorationOnReturnWitness ==
    /\ last.op = "exit" /\ last.thrown = NoExc
    /\ last.arg = "tenant2"
    /\ open[last.task] # <<>>
    /\ get_workspace_context(last.task) = "tenant1"

\* C3 - restoration on failure: when a with block is left by a failure of its
\* body, the task reads what it read right before the block was entered, and
\* it still does when the failure is caught.
RestorationOnFailure ==
    /\ (last.op = "exit" /\ last.thrown \in BodyExc)
           => /\ last.result = last.before
              /\ get_workspace_context(last.task) = Scoped(last.task)
    /\ last.op = "catch" => last.result = Scoped(last.task)

\* the body of "tenant2", nested in "tenant1", failed; the failure left the block
RestorationOnFailureWitness ==
    /\ last.op = "exit" /\ last.thrown \in BodyExc
    /\ last.arg = "tenant2" /\ last.before = "tenant1"
    /\ get_workspace_context(last.task) = "tenant1"

\* C4 - failure pass-through: the failure that leaves a with block is the
\* failure its body raised, and at that point the scope is finished and the
\* slot is restored.
FailurePassThrough ==
    (last.op = "exit" /\ last.thrown \in BodyExc)
        => /\ last.raised = last.thrown
           /\ pending[last.task] = last.thrown
           /\ scopes[last.scope].state = "exited"
           /\ last.scope \notin {open[last.task][i] : i \in 1..Len(open[last.task])}
           /\ get_workspace_context(last.task) = last.before

\* failure e2 left a block and is propagating in the task
FailurePassThroughWitness ==
    /\ last.op = "exit" /\ last.thrown = "e2" /\ last.raised = "e2"
    /\ pending[last.task] = "e2"

\* C5 - a read made inside a with block, no inner block being active, returns
\* the workspace of that block.
ReadInsideScope ==
    (last.op = "get" /\ open[last.task] # <<>>)
        => last.result = Inner(last.task).workspace

\* a read inside a block nested in a block of another workspace
ReadInsideScopeWitness ==
    /\ last.op = "get" /\ Len(open[last.task]) = 2
    /\ last.result = "tenant2"
    /\ scopes[open[last.task][1]].workspace = "tenant1"

\* C6 as claimed - every running task that is inside no scope reads unset and
\* get_effective_workspace gives it any default unchanged; every new task,
\* spawned or started from scratch, starts unset.
UnsetOutsideScopeAsClaimed ==
    /\ \A t \in Task :
           (Running(t) /\ open[t] = <<>>)
               => /\ get_workspace_context(t) = None
                  /\ \A d \in DefaultWorkspace : get_effective_workspace(t, d) = d
    /\ last.op \in {"start", "spawn"} => last.result = None

\* C6 - a running task that is inside no scope and inherited no value when
\* it was spawned reads unset, and get_effective_workspace gives it any
\* default unchanged; a task started from scratch starts unset.
UnsetOutsideScope ==
    /\ \A t \in Task :
           (Running(t) /\ open[t] = <<>> /\ spawned[t].value = None)
               => /\ get_workspace_context(t) = None
                  /\ \A d \in DefaultWorkspace : get_effective_workspace(t, d) = d
    /\ last.op = "start" => last.result = None

\* a task that inherited nothing, entered and left a scope, reads unset again
UnsetOutsideScopeWitness ==
    /\ last.op = "get" /\ last.result = None
    /\ open[last.task] = <<>> /\ spawned[last.task].value = None
    /\ \E s \in ScopeId : scopes[s].state = "exited"

\* C7 - get_effective_workspace(d) returns the workspace the task is scoped
\* to when there is one, and d when there is none.
EffectivePrefersContext ==
    last.op = "effective"
        => last.result = (IF Scoped(last.task) # None THEN Scoped(last.task)
                          ELSE last.arg)

\* unset -> inside a scope -> outside again: the default "public" is back
EffectivePrefersContextWitness ==
    /\ last.op = "effective" /\ last.arg = "public" /\ last.result = "public"
    /\ open[last.task] = <<>>
    /\ \E s \in ScopeId : scopes[s].state = "exited"

\* C8 - entering and leaving a scope raise no failure of their own: what
\* leaves the operation is what the guarded work raised, if anything.
ScopeNeverFails ==
    last.op \in {"enter", "exit"} => last.raised = last.thrown

\* C9 - a task spawned while the spawner was inside a scope reads that scope's
\* workspace whenever it is inside no scope of its own.
ChildInherits ==
    \A t \in Task :
        (Running(t) /\ spawned[t].scope # 0 /\ open[t] = <<>>)
            => get_workspace_context(t) = spawned[t].workspace

\* a child spawned inside "tenant1" overrode it, left its own scope, and reads
\* "tenant1" again
ChildInheritsWitness ==
    \E t \in Task :
        /\ Running(t) /\ spawned[t].scope # 0 /\ open[t] = <<>>
        /\ last.op = "get" /\ last.task = t /\ last.result = "tenant1"
        /\ \E s \in ScopeId : scopes[s].state = "exited"

\* C10 - copy on spawn: the spawned task starts with the value the spawner
\* reads at that moment, and afterwards no step of a task changes what another
\* running task reads.
CopyOnSpawn ==
    [][ /\ last'.op = "spawn"
            => \E c \in Task :
                  /\ status[c] = "unborn" /\ status'[c] = "running"
                  /\ get_workspace_context(c)' = get_workspace_context(last'.task)
                  /\ last'.result = get_workspace_context(last'.task)
        /\ \A t \in Task :
              (Running(t) /\ Running(t)' /\ last'.task # t)
                  => get_workspace_context(t)' = get_workspace_context(t)
      ]_vars

\* the spawner left the scope it spawned in; the child still reads "tenant1"
CopyOnSpawnWitness ==
    \E t \in Task :
        /\ Running(t) /\ parent[t] # 0 /\ Running(parent[t])
        /\ spawned[t].scope # 0
        /\ get_workspace_context(t) = "tenant1"
        /\ get_workspace_context(parent[t]) = None
        /\ last.op = "exit" /\ last.task = parent[t]

\* C11 - cancellation: a task cancelled inside with blocks gets out of all of
\* them with the slot back at what it read before the outermost one, while it
\* is still running (before it ends), unless its own code catches the
\* cancellation inside a block.
Unwound(t) ==
    /\ open[t] = <<>> /\ pending[t] = CancelledError
    /\ get_workspace_context(t) = episode[t].base
CaughtInside(t) ==
    /\ last.op = "catch" /\ last.task = t /\ last.thrown = CancelledError
    /\ open[t] # <<>>
CancelRestores ==
    \A t \in Task :
        (pending[t] = CancelledError /\ open[t] # <<>>)
            ~> (Unwound(t) \/ CaughtInside(t))

\* the cancellation left "tenant1", the last block of the task, and the task
\* reads what it read before
CancelRestoresWitness ==
    /\ last.op = "exit" /\ last.thrown = CancelledError /\ last.arg = "tenant1"
    /\ last.result = last.before
    /\ Unwound(last.task)

\* C12 - explicit unset: inside `with set_workspace(None)` the task reads
\* unset and get_effective_workspace gives any default unchanged, whatever the
\* enclosing scope; the slot is bound to None, not unbound, and leaving the
\* block puts back what the task read before it.
ExplicitUnset ==
    /\ \A t \in Task :
           (Running(t) /\ open[t] # <<>> /\ Inner(t).workspace = None)
               => /\ get_workspace_context(t) = None
                  /\ \A d \in DefaultWorkspace : get_effective_workspace(t, d) = d
                  /\ ctxvars[CurrentContext(t)] = None
                  /\ Len(open[t]) > 1
                         => Inner(t).token.old = scopes[open[t][Len(open[t]) - 1]].workspace
    /\ (last.op \in {"get", "effective"} /\ open[last.task] # <<>>
            /\ Inner(last.task).workspace = None)
           => last.result = (IF last.op = "get" THEN None ELSE last.arg)
    /\ (last.op = "exit" /\ last.arg = None) => last.result = last.before

\* the block overriding "tenant1" with None was left: the task reads "tenant1"
ExplicitUnsetWitness ==
    /\ last.op = "exit" /\ last.arg = None
    /\ last.before = "tenant1" /\ last.result = "tenant1"
    /\ open[last.task] # <<>> /\ Inner(last.task).workspace = "tenant1"

\* C16 - only unset falls back: get_effective_workspace(d) called inside a
\* block of any identifier, the empty one included, returns that identifier.
OnlyUnsetFallsBack ==
    (last.op = "effective" /\ open[last.task] # <<>>
         /\ Inner(last.task).workspace # None)
        => last.result = Inner(last.task).workspace

\* inside `with set_workspace("")`, get_effective_workspace("public") is ""
OnlyUnsetFallsBackWitness ==
    /\ last.op = "effective" /\ last.arg = "public" /\ last.result = ""
    /\ open[last.task] # <<>> /\ Inner(last.task).workspace = ""

\* C13 - reads have no side effect: a get_workspace_context or
\* get_effective_workspace call changes the binding of no Context, no scope
\* object and no task, and a read that follows a read of the same task, with
\* no mutation in between, agrees with it.
ReadsAgree(getter, effective) ==
    effective.result = (IF getter.result # None THEN getter.result ELSE effective.arg)
ReadsHaveNoEffect ==
    [][ last'.op \in {"get", "effective"}
            => /\ ctxvars' = ctxvars
               /\ scopes' = scopes /\ open' = open /\ episode' = episode
               /\ status' = status /\ pending' = pending /\ ctxOf' = ctxOf
               /\ (last.task = last'.task /\ last.op = "get" /\ last'.op = "effective")
                      => ReadsAgree(last, last')
               /\ (last.task = last'.task /\ last.op = "effective" /\ last'.op = "get")
                      => ReadsAgree(last', last)
               /\ (last.task = last'.task /\ last.op = "effective" /\ last'.op = "effective"
                       /\ last.result # last.arg)
                      => last'.result = last.result
      ]_vars

\* a task read the default inside no scope, then read unset, while the other
\* task is inside "tenant1"
ReadsHaveNoEffectWitness ==
    /\ last.op = "get" /\ last.result = None
    /\ ctxvars[CurrentContext(last.task)] = MISSING
    /\ \E u \in Task \ {last.task} :
           Running(u) /\ open[u] # <<>> /\ get_workspace_context(u) = "tenant1"

\* C14 as claimed - whatever the order in which a task leaves the scopes it
\* entered, once it has left them all it reads what it read before the first.
ExitOrderAsClaimed ==
    \A t \in Task :
        (Running(t) /\ open[t] = <<>> /\ episode[t].own)
            => get_workspace_context(t) = episode[t].base

\* C14 - a task that leaves the scopes it entered innermost first reads, once
\* it has left them all, what it read before the first; in any order, each
\* exit made by the task that entered the scope puts back what that task read
\* right before it entered that scope.
ExitOrder ==
    /\ \A t \in Task :
           (Running(t) /\ open[t] = <<>> /\ episode[t].own /\ episode[t].lifo)
               => get_workspace_context(t) = episode[t].base
    /\ (last.op = "exit" /\ last.raised = last.thrown)
           => /\ last.result = last.before
              /\ get_workspace_context(last.task) = last.before

\* "tenant1" then "tenant2" were entered and left in that order: the task has
\* left both and reads "tenant1", which it read before entering "tenant2"
ExitOrderWitness ==
    /\ last.op = "exit" /\ last.raised = NoExc /\ last.arg = "tenant2"
    /\ open[last.task] = <<>>
    /\ episode[last.task].own /\ ~episode[last.task].lifo
    /\ episode[last.task].base = None
    /\ last.before = "tenant1" /\ get_workspace_context(last.task) = "tenant1"

\* C15 - creating a scope object, by set_workspace or by awaiting
\* async_set_workspace, changes the binding of no Context and gives the same
\* object, not entered; the slot of the entering task becomes the workspace
\* when the object is entered, and only that slot changes.
Created(w) == [NoScope EXCEPT !.state = "created", !.workspace = w]
====
